---- MODULE Spec2Model ----
(***************************************************************************)
(* Model of the DeepClaude chat client (frontend/components/chat.tsx):     *)
(* the Chat component's state, its session handlers, the streaming read    *)
(* loop of handleSubmit and the React effects that follow every update.    *)
(*                                                                         *)
(* Text is a sequence of one-character strings.  The response body is a    *)
(* sequence of tokens: the "data: " prefix, a JSON payload, raw text and   *)
(* the newline; a read may end after any token.                            *)
(* Effects (updateCurrentChat, the localStorage save) run after the render *)
(* that follows a handler and are therefore part of each action.           *)
(***************************************************************************)
EXTENDS Integers, Sequences, FiniteSets, TLC

\* ------------------------------------------------------------------ bounds
MaxSubmits == 2        \* handleSubmit invocations recorded in one behaviour
MaxChats == 2          \* chat ids ever generated in one behaviour

\* ------------------------------------------------------- program constants
TitleLen == 20         \* generateChatTitle: firstMessage.slice(0, 20)

Null == 0              \* currentChatId === null
DefaultTitle == <<"N", "e", "w", " ", "C", "h", "a", "t">>
NullMessage == [role |-> "null"]
Undefined == <<>>      \* a missing field; falsy like the empty string

\* -------------------------------------------------------------------- text
Min(a, b) == IF a < b THEN a ELSE b

Slice(text, from, to) == SubSeq(text, from + 1, Min(to, Len(text)))

IsSpace(c) == c = " "

\* String.prototype.trim
Trim(text) ==
  LET keep == {i \in 1..Len(text) : ~IsSpace(text[i])}
  IN IF keep = {} THEN <<>>
     ELSE LET lo == CHOOSE i \in keep : \A j \in keep : i <= j
              hi == CHOOSE i \in keep : \A j \in keep : j <= i
          IN SubSeq(text, lo, hi)

\* mutant: the title is the whole message
generateChatTitle_Whole(firstMessage) == firstMessage

generateChatTitle(firstMessage) == Slice(firstMessage, 0, TitleLen)

\* values the editor can put into the input field
Inputs == {<<>>, <<" ">>, <<"h", "i">>}

\* values the settings dialog can pass as anthropicApiToken
Tokens == {<<>>, <<"k">>}

UserMessage(text) == [role |-> "user", content |-> text]
AssistantMessage(content, thinking) ==
  [role |-> "assistant", content |-> content, thinking |-> thinking]

\* -------------------------------------------------------- the wire format
\* Tokens of a response body.
NL == [t |-> "nl"]                           \* "\n"
PFX == [t |-> "pfx"]                         \* "data: "
Json(rec) == [t |-> "json", rec |-> rec]        \* the text of one JSON document
Raw(text) == [t |-> "raw", text |-> text]    \* text that is no JSON document

ThinkingBlock(f) == [content_type |-> "thinking", thinking |-> f]
TextBlock(f) == [content_type |-> "text", text |-> f]
ContentRecord(blocks) == [type |-> "content", content |-> blocks]
StopRecord == [type |-> "message_stop"]

DataLine(rec) == <<PFX, Json(rec), NL>>
BadLine == <<PFX, Raw("{bad"), NL>>          \* "data: " + undecodable payload
BlankLine == <<NL>>                          \* the event separator

\* a thinking block and a text block in one record, then the stop record
WireAnswer ==
  DataLine(ContentRecord(<<ThinkingBlock(<<"L">>), TextBlock(<<"4">>)>>))
    \o DataLine(StopRecord)

\* a body that ends without a stop record
WireTruncated == DataLine(ContentRecord(<<TextBlock(<<"c">>)>>))

\* the body of a non-success reply: one JSON document, no "data: " line
WireHttpError == <<Raw("{error}"), NL>>

\* what fetch can resolve to: the status and the body the server sends
Responses ==
  {[status |-> 200, wire |-> WireAnswer],
   [status |-> 200, wire |-> WireTruncated],
   [status |-> 500, wire |-> WireHttpError]}

\* ------------------------------------------------------------ the decoder
Field(rec, name) == IF name \in DOMAIN rec THEN rec[name] ELSE Undefined

Truthy(text) == text # <<>>

\* chunk.split("\n"): the pieces between newlines, empty pieces included
RECURSIVE SplitFrom(_, _, _)
SplitFrom(chunk, i, piece) ==
  IF i > Len(chunk) THEN <<piece>>
  ELSE IF chunk[i] = NL THEN <<piece>> \o SplitFrom(chunk, i + 1, <<>>)
  ELSE SplitFrom(chunk, i + 1, Append(piece, chunk[i]))

Split(chunk) == SplitFrom(chunk, 1, <<>>)

\* line.startsWith("data: ")
StartsWithData(line) == Len(line) >= 1 /\ line[1] = PFX

\* JSON.parse(text): only the whole text of one document parses
JsonParse(text) ==
  IF Len(text) = 1 /\ text[1].t = "json"
  THEN [ok |-> TRUE, value |-> text[1].rec]
  ELSE [ok |-> FALSE]

\* ------------------------------------------------------------ processLine
\* The state processLine reads and writes: currentMessageRef.current (cur) and
\* the React state its setters update.  thrown: an exception left processLine.

\* the updater passed to setMessages: replace a last assistant message, else append
SetMessagesUpdater(prev, newCurrentMessage) ==
  IF Len(prev) > 0 /\ prev[Len(prev)].role = "assistant"
  THEN [prev EXCEPT ![Len(prev)] = newCurrentMessage]
  ELSE Append(prev, newCurrentMessage)

IsThinkingBlock(block) ==
  /\ "content_type" \in DOMAIN block
  /\ block.content_type = "thinking"
  /\ Truthy(Field(block, "thinking"))

\* mutant: the text fragment is assigned, not appended
ProcessBlock_Assign(st, block, closureLen) ==
  LET cur1 ==
        IF IsThinkingBlock(block)
        THEN [st.cur EXCEPT !.thinking = st.cur.thinking \o block.thinking]
        ELSE IF Truthy(Field(block, "text"))
        THEN [st.cur EXCEPT !.content = block.text]
        ELSE st.cur
      open1 == IF IsThinkingBlock(block) THEN closureLen ELSE st.openThinking
  IN [st EXCEPT !.cur = cur1,
                !.openThinking = open1,
                !.messages = SetMessagesUpdater(st.messages, cur1)]

\* one iteration of `for (const content of data.content)`
ProcessBlock(st, block, closureLen) ==
  LET cur1 ==
        IF IsThinkingBlock(block)
        THEN [st.cur EXCEPT !.thinking = st.cur.thinking \o block.thinking]
        ELSE IF Truthy(Field(block, "text"))
        THEN [st.cur EXCEPT !.content = st.cur.content \o block.text]
        ELSE st.cur
      open1 == IF IsThinkingBlock(block) THEN closureLen ELSE st.openThinking
  IN [st EXCEPT !.cur = cur1,
                !.openThinking = open1,
                !.messages = SetMessagesUpdater(st.messages, cur1)]

RECURSIVE ProcessBlocks(_, _, _, _)
ProcessBlocks(st, blocks, i, closureLen) ==
  IF i > Len(blocks) \/ st.cur = NullMessage THEN st
  ELSE ProcessBlocks(ProcessBlock(st, blocks[i], closureLen), blocks, i + 1, closureLen)

processLine(st, line, closureLen) ==
  IF line = <<>> \/ ~StartsWithData(line) THEN st
  ELSE LET parsed == JsonParse(SubSeq(line, 2, Len(line)))
       IN IF ~parsed.ok THEN st                     \* caught and logged
          ELSE IF parsed.value.type = "content"
          THEN ProcessBlocks(st, Field(parsed.value, "content"), 1, closureLen)
          ELSE IF parsed.value.type = "message_stop"
          THEN [st EXCEPT !.isThinkingComplete = TRUE]
          ELSE st

\* mutant: the try/catch encloses the loop, an undecodable line ends it
RECURSIVE ProcessLines_CatchOutside(_, _, _, _)
ProcessLines_CatchOutside(st, lines, i, closureLen) ==
  IF i > Len(lines) \/ st.thrown THEN st
  ELSE IF StartsWithData(lines[i]) /\ ~JsonParse(SubSeq(lines[i], 2, Len(lines[i]))).ok
  THEN st
  ELSE ProcessLines_CatchOutside(processLine(st, lines[i], closureLen), lines,
                                 i + 1, closureLen)

\* `for (const line of lines) processLine(line)`; an exception ends the loop
RECURSIVE ProcessLines(_, _, _, _)
ProcessLines(st, lines, i, closureLen) ==
  IF i > Len(lines) \/ st.thrown THEN st
  ELSE ProcessLines(processLine(st, lines[i], closureLen), lines, i + 1, closureLen)

ProcessChunk(st, chunk, closureLen) == ProcessLines(st, Split(chunk), 1, closureLen)

\* processLine calls setMessages for the line: a content record with a block
CallsSetMessages(line) ==
  /\ line # <<>>
  /\ StartsWithData(line)
  /\ JsonParse(SubSeq(line, 2, Len(line))).ok
  /\ JsonParse(SubSeq(line, 2, Len(line))).value.type = "content"
  /\ Len(Field(JsonParse(SubSeq(line, 2, Len(line))).value, "content")) > 0

\* the iteration over a chunk calls setMessages: the render gets a new array
SetsMessages(cur, chunk) ==
  /\ cur # NullMessage
  /\ \E i \in DOMAIN Split(chunk) : CallsSetMessages(Split(chunk)[i])

\* ------------------------------------------------------------------ state
VARIABLES
  messages,            \* useState<Message[]>: the visible transcript
  input,               \* useState(""): the editor's text
  isLoading,           \* useState(false)
  chats,               \* useState<StoredChat[]>: the session store
  currentChatId,       \* useState<string | null>
  openThinking,        \* useState<number | null>
  isThinkingComplete,  \* useState<boolean>(false)
  currentMessageRef,   \* useRef<Message | null>: the message being streamed
  apiToken,            \* ChatPage's apiTokens.anthropicApiToken
  storage,             \* localStorage['deepclaude-chats']
  nextId,              \* the next id crypto.randomUUID() returns
  submits,             \* one record per handleSubmit invocation
  isAutoScrollEnabled, \* useState(true)
  scrollRef,           \* useRef<number | null>: the animation frame requested last
  frames,              \* callbacks requested with requestAnimationFrame, not yet run
  coalesced,           \* ghost: the frame in scrollRef was requested in place of
                       \* one that scrollToBottom cancelled
  thinkingStartTime,   \* useState<number | null>
  elapsedTime,         \* useState<number>(0)
  now,                 \* Date.now(), in seconds
  mounted,             \* the Chat component is mounted: no effect has thrown
  quotaExceeded        \* localStorage.setItem throws QuotaExceededError

vars ==
  <<messages, input, isLoading, chats, currentChatId, openThinking,
    isThinkingComplete, currentMessageRef, apiToken, storage, nextId, submits,
    isAutoScrollEnabled, scrollRef, frames, coalesced, thinkingStartTime,
    elapsedTime, now, mounted, quotaExceeded>>

storageEnv == <<mounted, quotaExceeded>>

scrollVars == <<isAutoScrollEnabled, scrollRef, frames, coalesced>>
timerVars == <<thinkingStartTime, elapsedTime, now>>

\* scrollRef.current: null, the id of a frame that is still to run, or the id
\* of a frame that was cancelled
NoFrame == "null"
PendingFrame == "pending"
CancelledFrame == "cancelled"

NoTime == -1                                 \* thinkingStartTime === null

NoOpenThinking == -1                         \* openThinking === null
NoBlob == [present |-> FALSE, chats |-> <<>>]  \* getItem returns null

StoredChat(id, title) == [id |-> id, title |-> title, messages |-> <<>>]

ChatIds(chs) == {chs[i].id : i \in DOMAIN chs}

\* prev.filter(chat => chat.id !== chatId)
RECURSIVE FilterOut(_, _)
FilterOut(chs, chatId) ==
  IF chs = <<>> THEN <<>>
  ELSE IF Head(chs).id = chatId THEN FilterOut(Tail(chs), chatId)
  ELSE <<Head(chs)>> \o FilterOut(Tail(chs), chatId)

\* ---------------------------------------------------------------- effects
\* mutant: the messages are stored only while the chat has none
updateCurrentChat_FirstOnly(chs, chatId, msgs) ==
  IF chatId # Null /\ Len(msgs) > 0
  THEN [i \in DOMAIN chs |->
          IF chs[i].id = chatId /\ Len(chs[i].messages) = 0
          THEN [chs[i] EXCEPT !.messages = msgs,
                              !.title = generateChatTitle(msgs[1].content)]
          ELSE chs[i]]
  ELSE chs

\* useEffect(() => updateCurrentChat(), [messages, updateCurrentChat])
updateCurrentChat(chs, chatId, msgs) ==
  IF chatId # Null /\ Len(msgs) > 0
  THEN [i \in DOMAIN chs |->
          IF chs[i].id = chatId
          THEN [chs[i] EXCEPT
                  !.messages = msgs,
                  !.title = IF Len(chs[i].messages) = 0
                            THEN generateChatTitle(msgs[1].content)
                            ELSE @]
          ELSE chs[i]]
  ELSE chs

\* mutant: the record is rewritten only when the number of chats changes
SaveChats_OnLengthChange(store, chs) ==
  IF Len(chs) > 0 /\ (~store.present \/ Len(store.chats) # Len(chs))
  THEN [present |-> TRUE, chats |-> chs]
  ELSE store

\* useEffect(() => { if (chats.length > 0) localStorage.setItem(...) }, [chats])
SaveChats(store, chs) ==
  IF Len(chs) > 0 THEN [present |-> TRUE, chats |-> chs] ELSE store

\* the save effect calls setItem: chats is a new array (the handler called
\* setChats, or the updateCurrentChat effect ran for new messages or a new
\* currentChatId and called setChats) and it is not empty
SaveRuns(chs, chatId, msgs) ==
  /\ Len(updateCurrentChat(chs, chatId, msgs)) > 0
  /\ \/ chs # chats
     \/ (msgs # messages \/ chatId # currentChatId) /\ chatId # Null /\ Len(msgs) > 0

\* setItem throws in the save effect; nothing catches it
SaveThrows(chs, chatId, msgs) == quotaExceeded /\ SaveRuns(chs, chatId, msgs)

\* The render after a handler: the handler's values for chats, currentChatId,
\* messages and localStorage, then the two effects. An error thrown by an
\* effect is caught by nothing in the component: React unmounts it.
Commit(chs, chatId, msgs, store) ==
  /\ messages' = msgs
  /\ currentChatId' = chatId
  /\ chats' = updateCurrentChat(chs, chatId, msgs)
  /\ storage' = IF SaveThrows(chs, chatId, msgs)
                THEN store
                ELSE SaveChats(store, updateCurrentChat(chs, chatId, msgs))
  /\ mounted' = ~SaveThrows(chs, chatId, msgs)
  /\ UNCHANGED quotaExceeded

\* -------------------------------------------------------------- scrolling
\* mutant: the frame requested before is not cancelled
scrollToBottom_NoCancel ==
  /\ frames' = frames + 1
  /\ scrollRef' = PendingFrame
  /\ coalesced' = (scrollRef = PendingFrame)

\* scrollToBottom: cancel the frame in scrollRef, request a new one
scrollToBottom ==
  /\ frames' = (IF scrollRef = PendingFrame THEN frames - 1 ELSE frames) + 1
  /\ scrollRef' = PendingFrame
  /\ coalesced' = (scrollRef = PendingFrame)

\* useEffect(() => { if (isAutoScrollEnabled && messages.length > 0)
\* scrollToBottom() }, [messages, isAutoScrollEnabled, scrollToBottom]);
\* changed: the render has a new messages array or a new isAutoScrollEnabled
AutoScroll(changed, enabled, msgs) ==
  IF changed /\ enabled /\ Len(msgs) > 0
  THEN scrollToBottom
  ELSE UNCHANGED <<scrollRef, frames, coalesced>>

\* a handler that sets messages and leaves isAutoScrollEnabled alone
ScrollOnMessages(changed, msgs) ==
  /\ AutoScroll(changed, isAutoScrollEnabled, msgs)
  /\ UNCHANGED isAutoScrollEnabled

\* `if (scrollRef.current) cancelAnimationFrame(scrollRef.current)`
CancelFrame ==
  /\ frames' = IF scrollRef = PendingFrame THEN frames - 1 ELSE frames
  /\ scrollRef' = IF scrollRef = NoFrame THEN NoFrame ELSE CancelledFrame
  /\ coalesced' = FALSE
  /\ UNCHANGED isAutoScrollEnabled

\* ------------------------------------------------------ handleSubmit calls
Active(sub) == sub.pc \in {"fetch", "read"}

\* a call in flight: the chat it was made in, the closure's messages.length,
\* the response it reads and how far; left: the first handler by which the
\* user has left that chat since the call ("no": the user is still in it)
NewSubmit(chatId, closureLen) ==
  [pc |-> "fetch", chat |-> chatId, closureLen |-> closureLen,
   status |-> 0, wire |-> <<>>, pos |-> 0, left |-> "no"]

\* a call that returned at the guard, and one whose finally block has run: its
\* response, reader and closure are released
RejectedSubmit == [pc |-> "rejected"]
DoneSubmit == [pc |-> "done"]

\* ------------------------------------------------------------------- Init
Init ==
  /\ messages = <<>>
  /\ input = <<>>
  /\ isLoading = FALSE
  /\ chats = <<StoredChat(1, DefaultTitle)>>
  /\ currentChatId = 1
  /\ openThinking = NoOpenThinking
  /\ isThinkingComplete = FALSE
  /\ currentMessageRef = NullMessage
  /\ apiToken = <<>>
  /\ storage = [present |-> TRUE, chats |-> <<StoredChat(1, DefaultTitle)>>]
  /\ nextId = 2
  /\ submits = <<>>
  /\ isAutoScrollEnabled = TRUE
  /\ scrollRef = NoFrame
  /\ frames = 0
  /\ coalesced = FALSE
  /\ thinkingStartTime = NoTime
  /\ elapsedTime = 0
  /\ now = 0
  /\ mounted = TRUE
  /\ quotaExceeded = FALSE

\* ------------------------------------------------------- editor, settings
setInput(v) ==
  /\ mounted
  /\ input' = v
  /\ UNCHANGED <<messages, isLoading, chats, currentChatId, openThinking,
                 isThinkingComplete, currentMessageRef, apiToken, storage,
                 nextId, submits>>
  /\ UNCHANGED <<scrollVars, timerVars>>
  /\ UNCHANGED storageEnv

onSettingsChange(t) ==
  /\ mounted
  /\ apiToken' = t
  /\ UNCHANGED <<messages, input, isLoading, chats, currentChatId, openThinking,
                 isThinkingComplete, currentMessageRef, storage, nextId, submits>>
  /\ UNCHANGED <<scrollVars, timerVars>>
  /\ UNCHANGED storageEnv

\* ---------------------------------------------------------- session store
\* handler `how` takes the user out of the chats `left`: noted in the calls in
\* flight that were made in one of them
Leave(subs, how, left) ==
  [i \in DOMAIN subs |->
     IF Active(subs[i]) /\ subs[i].left = "no" /\ subs[i].chat \in left
     THEN [subs[i] EXCEPT !.left = how]
     ELSE subs[i]]

\* mutant: the transcript is not emptied
createNewChat_KeepTranscript ==
  /\ mounted
  /\ nextId <= MaxChats
  /\ Commit(Append(chats, StoredChat(nextId, DefaultTitle)), nextId, messages, storage)
  /\ nextId' = nextId + 1
  /\ submits' = Leave(submits, "createNewChat", 1..MaxChats)
  /\ UNCHANGED <<input, isLoading, openThinking, isThinkingComplete,
                 currentMessageRef, apiToken>>
  /\ UNCHANGED <<scrollVars, timerVars>>

createNewChat ==
  /\ mounted
  /\ nextId <= MaxChats
  /\ Commit(Append(chats, StoredChat(nextId, DefaultTitle)), nextId, <<>>, storage)
  /\ nextId' = nextId + 1
  /\ submits' = Leave(submits, "createNewChat", 1..MaxChats)
  /\ UNCHANGED <<input, isLoading, openThinking, isThinkingComplete,
                 currentMessageRef, apiToken>>
  /\ UNCHANGED <<scrollVars, timerVars>>

\* the sidebar button of a chat
selectChat(i) ==
  /\ mounted
  /\ i \in DOMAIN chats
  /\ Commit(chats, chats[i].id, chats[i].messages, storage)
  /\ submits' = Leave(submits, "selectChat", (1..MaxChats) \ {chats[i].id})
  /\ UNCHANGED <<input, isLoading, openThinking, isThinkingComplete,
                 currentMessageRef, apiToken, nextId>>
  /\ ScrollOnMessages(chats[i].id # currentChatId \/ chats[i].messages # messages,
                      chats[i].messages)
  /\ UNCHANGED timerVars

\* mutant: the chat is removed, current chat and transcript are left alone
deleteChat_KeepCurrent(chatId) ==
  /\ mounted
  /\ chatId \in ChatIds(chats)
  /\ Commit(FilterOut(chats, chatId), currentChatId, messages, storage)
  /\ submits' = Leave(submits, "deleteChat", {chatId})
  /\ UNCHANGED <<input, isLoading, openThinking, isThinkingComplete,
                 currentMessageRef, apiToken, nextId>>
  /\ UNCHANGED <<scrollVars, timerVars>>

deleteChat(chatId) ==
  /\ mounted
  /\ chatId \in ChatIds(chats)
  /\ IF currentChatId = chatId
     THEN Commit(FilterOut(chats, chatId), Null, <<>>, storage)
     ELSE Commit(FilterOut(chats, chatId), currentChatId, messages, storage)
  /\ submits' = Leave(submits, "deleteChat", {chatId})
  /\ UNCHANGED <<input, isLoading, openThinking, isThinkingComplete,
                 currentMessageRef, apiToken, nextId>>
  /\ UNCHANGED <<scrollVars, timerVars>>

\* mutant: the stored record is not removed
clearAllChats_KeepRecord ==
  /\ mounted
  /\ Commit(<<>>, Null, <<>>, storage)
  /\ submits' = Leave(submits, "clearAllChats", 1..MaxChats)
  /\ UNCHANGED <<input, isLoading, openThinking, isThinkingComplete,
                 currentMessageRef, apiToken, nextId>>
  /\ UNCHANGED <<scrollVars, timerVars>>

clearAllChats ==
  /\ mounted
  /\ Commit(<<>>, Null, <<>>, NoBlob)
  /\ submits' = Leave(submits, "clearAllChats", 1..MaxChats)
  /\ UNCHANGED <<input, isLoading, openThinking, isThinkingComplete,
                 currentMessageRef, apiToken, nextId>>
  /\ UNCHANGED <<scrollVars, timerVars>>

\* ----------------------------------------------------------- handleSubmit
\* setThinkingStartTime(null); setElapsedTime(0); then the timer effect, with
\* isLoading true and isThinkingComplete false: setThinkingStartTime(Date.now())
StartTimer ==
  /\ thinkingStartTime' = now
  /\ elapsedTime' = 0
  /\ UNCHANGED now

\* mutant: the guard does not look at isLoading
CanSubmit_IgnoreLoading(inp, loading, token) ==
  /\ Truthy(Trim(inp))
  /\ Truthy(token)

\* mutant: the guard looks at isLoading only
CanSubmit_LoadingOnly(inp, loading, token) == ~loading

\* `if (!input.trim() || isLoading) return; if (!apiTokens...) return`
CanSubmit(inp, loading, token) ==
  /\ Truthy(Trim(inp))
  /\ ~loading
  /\ Truthy(token)

handleSubmit ==
  /\ mounted
  /\ Len(submits) < MaxSubmits
  /\ \/ /\ ~CanSubmit(input, isLoading, apiToken)
        /\ submits' = Append(submits, RejectedSubmit)
        /\ UNCHANGED <<messages, input, isLoading, chats, currentChatId,
                       openThinking, isThinkingComplete, currentMessageRef,
                       apiToken, storage, nextId, scrollVars, timerVars,
                       storageEnv>>
     \/ /\ CanSubmit(input, isLoading, apiToken)
        /\ currentChatId = Null => nextId <= MaxChats
        /\ LET lazy == currentChatId = Null
               chatId == IF lazy THEN nextId ELSE currentChatId
               chs == IF lazy
                      THEN Append(chats, StoredChat(nextId, generateChatTitle(input)))
                      ELSE chats
           IN /\ Commit(chs, chatId, Append(messages, UserMessage(input)), storage)
              /\ nextId' = IF lazy THEN nextId + 1 ELSE nextId
              /\ submits' = Append(submits, NewSubmit(chatId, Len(messages)))
        /\ input' = <<>>
        /\ isLoading' = TRUE
        /\ isThinkingComplete' = FALSE
        /\ ScrollOnMessages(TRUE, Append(messages, UserMessage(input)))
        /\ StartTimer
        /\ UNCHANGED <<openThinking, currentMessageRef, apiToken>>

\* `await fetch(...)` resolves, whatever the status: the reader is taken, the
\* current message is initialised and the placeholder is appended
FetchResolve(s) ==
  /\ mounted
  /\ s \in DOMAIN submits
  /\ submits[s].pc = "fetch"
  /\ \E r \in Responses :
       submits' = [submits EXCEPT ![s].pc = "read",
                                  ![s].status = r.status,
                                  ![s].wire = r.wire]
  /\ currentMessageRef' = AssistantMessage(<<>>, <<>>)
  /\ Commit(chats, currentChatId, Append(messages, AssistantMessage(<<>>, <<>>)),
            storage)
  /\ UNCHANGED <<input, isLoading, openThinking, isThinkingComplete, apiToken,
                 nextId>>
  /\ ScrollOnMessages(TRUE, Append(messages, AssistantMessage(<<>>, <<>>)))
  /\ UNCHANGED timerVars

\* mutant: the finally block does not reset isLoading
Finally_KeepLoading(s) ==
  /\ submits' = [submits EXCEPT ![s] = DoneSubmit]
  /\ UNCHANGED isLoading
  /\ CancelFrame

\* catch and finally: the error is logged, isLoading is reset
Finally(s) ==
  /\ submits' = [submits EXCEPT ![s] = DoneSubmit]
  /\ isLoading' = FALSE
  /\ CancelFrame

\* mutant: the failure takes the call's user message back
FetchFail_Rollback(s) ==
  /\ mounted
  /\ s \in DOMAIN submits
  /\ submits[s].pc = "fetch"
  /\ Finally(s)
  /\ Commit(chats, currentChatId, Slice(messages, 0, submits[s].closureLen), storage)
  /\ UNCHANGED <<input, openThinking, isThinkingComplete, currentMessageRef,
                 apiToken, nextId>>
  /\ UNCHANGED timerVars

\* fetch rejects (connection error) or the response has no body
FetchFail(s) ==
  /\ mounted
  /\ s \in DOMAIN submits
  /\ submits[s].pc = "fetch"
  /\ Finally(s)
  /\ UNCHANGED <<messages, input, chats, currentChatId, openThinking,
                 isThinkingComplete, currentMessageRef, apiToken, storage, nextId>>
  /\ UNCHANGED timerVars
  /\ UNCHANGED storageEnv

\* one iteration of the read loop: a chunk of k tokens is decoded, split and
\* processed; the setState calls of the iteration are rendered together
ReadChunk(s) ==
  /\ mounted
  /\ s \in DOMAIN submits
  /\ submits[s].pc = "read"
  /\ \E k \in 1..(Len(submits[s].wire) - submits[s].pos) :
       LET chunk == SubSeq(submits[s].wire, submits[s].pos + 1, submits[s].pos + k)
           st == ProcessChunk([cur |-> currentMessageRef,
                               messages |-> messages,
                               openThinking |-> openThinking,
                               isThinkingComplete |-> isThinkingComplete,
                               thrown |-> FALSE],
                              chunk, submits[s].closureLen)
       IN /\ currentMessageRef' = st.cur
          /\ openThinking' = st.openThinking
          /\ isThinkingComplete' = st.isThinkingComplete
          /\ Commit(chats, currentChatId, st.messages, storage)
          /\ IF st.thrown
             THEN Finally(s)
             ELSE /\ submits' = [submits EXCEPT ![s].pos = @ + k]
                  /\ ScrollOnMessages(SetsMessages(currentMessageRef, chunk),
                                      st.messages)
                  /\ UNCHANGED isLoading
  /\ UNCHANGED <<input, apiToken, nextId, timerVars>>

\* reader.read() returns done: the loop breaks, finally runs
ReadDone(s) ==
  /\ mounted
  /\ s \in DOMAIN submits
  /\ submits[s].pc = "read"
  /\ submits[s].pos = Len(submits[s].wire)
  /\ Finally(s)
  /\ UNCHANGED <<messages, input, chats, currentChatId, openThinking,
                 isThinkingComplete, currentMessageRef, apiToken, storage, nextId>>
  /\ UNCHANGED timerVars
  /\ UNCHANGED storageEnv

\* reader.read() rejects: the transport failed in the middle of the body
ReadError(s) ==
  /\ mounted
  /\ s \in DOMAIN submits
  /\ submits[s].pc = "read"
  /\ submits[s].pos < Len(submits[s].wire)
  /\ Finally(s)
  /\ UNCHANGED <<messages, input, chats, currentChatId, openThinking,
                 isThinkingComplete, currentMessageRef, apiToken, storage, nextId>>
  /\ UNCHANGED timerVars
  /\ UNCHANGED storageEnv

\* ------------------------------------------------------------------- Next
Next ==
  \/ \E v \in Inputs : setInput(v)
  \/ \E t \in Tokens : onSettingsChange(t)
  \/ createNewChat
  \/ \E i \in 1..MaxChats : selectChat(i)
  \/ \E id \in 1..MaxChats : deleteChat(id)
  \/ clearAllChats
  \/ handleSubmit
  \/ \E s \in 1..MaxSubmits : FetchResolve(s)
  \/ \E s \in 1..MaxSubmits : FetchFail(s)
  \/ \E s \in 1..MaxSubmits : ReadChunk(s)
  \/ \E s \in 1..MaxSubmits : ReadDone(s)
  \/ \E s \in 1..MaxSubmits : ReadError(s)

Spec == Init /\ [][Next]_vars

\* The transport of a call in flight: fetch settles, and every reader.read()
\* settles with a chunk, with the end of the body or with an error.
TransportStep ==
  \E s \in 1..MaxSubmits :
    FetchResolve(s) \/ FetchFail(s) \/ ReadChunk(s) \/ ReadDone(s) \/ ReadError(s)

\* The turns of one chat with a transport that always settles: the editor, the
\* settings, handleSubmit and the calls in flight.
NextTurn ==
  \/ \E v \in Inputs : setInput(v)
  \/ \E t \in Tokens : onSettingsChange(t)
  \/ handleSubmit
  \/ \E s \in 1..MaxSubmits : FetchResolve(s)
  \/ \E s \in 1..MaxSubmits : FetchFail(s)
  \/ \E s \in 1..MaxSubmits : ReadChunk(s)
  \/ \E s \in 1..MaxSubmits : ReadDone(s)
  \/ \E s \in 1..MaxSubmits : ReadError(s)

SpecTurn == Init /\ [][NextTurn]_vars /\ WF_vars(TransportStep)

\* ------------------------------------------------ the scroll coordinator
\* handleScroll, run for a scroll event of #chat-container (isScrolling is
\* never set): setIsAutoScrollEnabled(isAtBottom), then the auto-scroll
\* effect if the value is a new one
handleScroll(isAtBottom) ==
  /\ mounted
  /\ isAutoScrollEnabled' = isAtBottom
  /\ AutoScroll(isAtBottom # isAutoScrollEnabled, isAtBottom, messages)
  /\ UNCHANGED <<messages, input, isLoading, chats, currentChatId, openThinking,
                 isThinkingComplete, currentMessageRef, apiToken, storage,
                 nextId, submits, timerVars>>
  /\ UNCHANGED storageEnv

\* the browser runs a requested frame: container.scrollTo({top: scrollHeight});
\* scrollRef.current = null
AnimationFrame ==
  /\ mounted
  /\ frames > 0
  /\ frames' = frames - 1
  /\ scrollRef' = NoFrame
  /\ coalesced' = FALSE
  /\ UNCHANGED <<messages, input, isLoading, chats, currentChatId, openThinking,
                 isThinkingComplete, currentMessageRef, apiToken, storage,
                 nextId, submits, isAutoScrollEnabled, timerVars>>
  /\ UNCHANGED storageEnv

NextScroll ==
  \/ NextTurn
  \/ \E isAtBottom \in BOOLEAN : handleScroll(isAtBottom)
  \/ AnimationFrame

\* a requested frame is run by the browser before the next repaint
SpecScroll == Init /\ [][NextScroll]_vars /\ WF_vars(TransportStep)
                   /\ WF_vars(AnimationFrame)

\* ------------------------------------------------------ the elapsed time
MaxNow == 3

\* a second passes; the interval of the timer effect exists while isLoading
\* && !isThinkingComplete, and its callback sets elapsedTime
Tick ==
  /\ mounted
  /\ now < MaxNow
  /\ now' = now + 1
  /\ elapsedTime' = IF isLoading /\ ~isThinkingComplete /\ thinkingStartTime # NoTime
                    THEN now' - thinkingStartTime
                    ELSE elapsedTime
  /\ UNCHANGED <<messages, input, isLoading, chats, currentChatId, openThinking,
                 isThinkingComplete, currentMessageRef, apiToken, storage,
                 nextId, submits, scrollVars, thinkingStartTime>>
  /\ UNCHANGED storageEnv

NextTimer ==
  \/ NextTurn
  \/ Tick

SpecTimer == Init /\ [][NextTimer]_vars

\* ------------------------------------------------ the store across reloads
\* The session handlers, the editor, the settings and the reload of the page,
\* starting from the records earlier page loads can have left in localStorage.

\* ids of chats created by earlier page loads
AnsweredId == MaxChats + 1
UntouchedId == MaxChats + 2
StoreIds == 1..(MaxChats + 2)

\* a chat with one answered turn, and a chat that was never used
AnsweredChat ==
  [id |-> AnsweredId, title |-> generateChatTitle(<<"h", "i">>),
   messages |-> <<UserMessage(<<"h", "i">>), AssistantMessage(<<"4">>, <<"L">>)>>]
UntouchedChat == StoredChat(UntouchedId, DefaultTitle)

PersistedRecords ==
  {NoBlob,
   [present |-> TRUE, chats |-> <<AnsweredChat>>],
   [present |-> TRUE, chats |-> <<UntouchedChat>>],
   [present |-> TRUE, chats |-> <<AnsweredChat, UntouchedChat>>],
   [present |-> TRUE, chats |-> <<UntouchedChat, AnsweredChat>>]}

\* a record that is not the JSON text of a list of chats
UndecodableBlob == [present |-> TRUE, text |-> <<"{">>]

\* JSON.parse(storedChats) returns
Decodable(store) == "chats" \in DOMAIN store

\* `const storedChats = localStorage.getItem(...); if (storedChats) ...`
ParsedChats(store) == IF store.present THEN store.chats ELSE <<>>

\* mutant: the mount effect creates the new chat without loading the stored ones
MountChats_NoLoad(store, chatId) == <<StoredChat(chatId, DefaultTitle)>>

\* the mount effect: setChats(parsedChats), then createNewChat()
MountChats(store, chatId) ==
  Append(ParsedChats(store), StoredChat(chatId, DefaultTitle))

\* the page is loaded again: the component state is the initial one, the
\* calls in flight are gone with the page, the mount effect runs
Restart ==
  /\ nextId <= MaxChats
  /\ IF Decodable(storage)
     THEN /\ Commit(MountChats(storage, nextId), nextId, <<>>, storage)
          /\ nextId' = nextId + 1
     ELSE \* JSON.parse throws: setChats and createNewChat are not reached
          /\ messages' = <<>>
          /\ currentChatId' = Null
          /\ chats' = <<>>
          /\ mounted' = FALSE
          /\ UNCHANGED <<storage, nextId, quotaExceeded>>
  /\ input' = <<>>
  /\ isLoading' = FALSE
  /\ openThinking' = NoOpenThinking
  /\ isThinkingComplete' = FALSE
  /\ currentMessageRef' = NullMessage
  /\ apiToken' = <<>>
  /\ submits' = <<>>
  /\ isAutoScrollEnabled' = TRUE
  /\ scrollRef' = NoFrame
  /\ frames' = 0
  /\ coalesced' = FALSE
  /\ thinkingStartTime' = NoTime
  /\ elapsedTime' = 0
  /\ UNCHANGED now

\* the first load of the page over a record of earlier page loads
InitStore ==
  \E record \in PersistedRecords :
    /\ messages = <<>>
    /\ input = <<>>
    /\ isLoading = FALSE
    /\ chats = MountChats(record, 1)
    /\ currentChatId = 1
    /\ openThinking = NoOpenThinking
    /\ isThinkingComplete = FALSE
    /\ currentMessageRef = NullMessage
    /\ apiToken = <<>>
    /\ storage = SaveChats(record, MountChats(record, 1))
    /\ nextId = 2
    /\ submits = <<>>
    /\ isAutoScrollEnabled = TRUE
    /\ scrollRef = NoFrame
    /\ frames = 0
    /\ coalesced = FALSE
    /\ thinkingStartTime = NoTime
    /\ elapsedTime = 0
    /\ now = 0
    /\ mounted = TRUE
    /\ quotaExceeded = FALSE

NextStore ==
  \/ \E v \in Inputs : setInput(v)
  \/ \E t \in Tokens : onSettingsChange(t)
  \/ createNewChat
  \/ \E i \in StoreIds : selectChat(i)
  \/ \E id \in StoreIds : deleteChat(id)
  \/ clearAllChats
  \/ Restart

SpecStore == InitStore /\ [][NextStore]_vars

\* ------------------------------------------------ the store and submissions
\* The handlers of the store, the reload of the page and handleSubmit, which
\* creates a chat when there is no current one; the requests fail at fetch.
NextCurrent ==
  \/ NextStore
  \/ handleSubmit
  \/ \E s \in 1..MaxSubmits : FetchFail(s)

SpecCurrent == InitStore /\ [][NextCurrent]_vars

\* ------------------------------------------------- localStorage that fails
\* The handlers of the store and the reload of the page, over a localStorage
\* whose record can be undecodable and whose setItem can throw.

\* the quota of the origin is used up, or is free again
QuotaChange(exceeded) ==
  /\ quotaExceeded' = exceeded
  /\ UNCHANGED <<messages, input, isLoading, chats, currentChatId, openThinking,
                 isThinkingComplete, currentMessageRef, apiToken, storage,
                 nextId, submits, scrollVars, timerVars, mounted>>

\* the first load of the page: the mount effect over the record, then the
\* save effect
InitStorage ==
  \E record \in PersistedRecords \cup {UndecodableBlob}, exceeded \in BOOLEAN :
    /\ messages = <<>>
    /\ input = <<>>
    /\ isLoading = FALSE
    /\ chats = IF Decodable(record) THEN MountChats(record, 1) ELSE <<>>
    /\ currentChatId = IF Decodable(record) THEN 1 ELSE Null
    /\ openThinking = NoOpenThinking
    /\ isThinkingComplete = FALSE
    /\ currentMessageRef = NullMessage
    /\ apiToken = <<>>
    /\ storage = IF Decodable(record) /\ ~exceeded
                 THEN SaveChats(record, MountChats(record, 1))
                 ELSE record
    /\ nextId = 2
    /\ submits = <<>>
    /\ isAutoScrollEnabled = TRUE
    /\ scrollRef = NoFrame
    /\ frames = 0
    /\ coalesced = FALSE
    /\ thinkingStartTime = NoTime
    /\ elapsedTime = 0
    /\ now = 0
    /\ mounted = (Decodable(record) /\ ~exceeded)
    /\ quotaExceeded = exceeded

NextStorage ==
  \/ NextStore
  \/ \E exceeded \in BOOLEAN : QuotaChange(exceeded)

SpecStorage == InitStorage /\ [][NextStorage]_vars

\* ------------------------------------------------------ titles of chats
\* The turns of chats whose first message is longer than a title, as long as a
\* title, or shorter: the editor, the settings, handleSubmit and its calls,
\* and the deletion of a chat (after which handleSubmit creates the chat).

\* "How many r's in straw": one character more than a title holds
LongInput ==
  <<"H", "o", "w", " ", "m", "a", "n", "y", " ", "r", "'", "s", " ",
    "i", "n", " ", "s", "t", "r", "a", "w">>

TitleInputs == {LongInput, Slice(LongInput, 0, TitleLen), <<"h", "i">>}

NextTitle ==
  \/ \E v \in TitleInputs : setInput(v)
  \/ \E t \in Tokens : onSettingsChange(t)
  \/ \E id \in 1..MaxChats : deleteChat(id)
  \/ handleSubmit
  \/ \E s \in 1..MaxSubmits : FetchResolve(s)
  \/ \E s \in 1..MaxSubmits : FetchFail(s)
  \/ \E s \in 1..MaxSubmits : ReadChunk(s)
  \/ \E s \in 1..MaxSubmits : ReadDone(s)
  \/ \E s \in 1..MaxSubmits : ReadError(s)

SpecTitle == Init /\ [][NextTitle]_vars

\* ------------------------------------------------- the read loop on its own
\* The read loop of one accepted call, over richer response bodies and with no
\* other handler running: the state once "hi" was submitted in the first chat
\* and fetch has resolved.

\* the spec's example stream
WireExample ==
  DataLine(ContentRecord(<<ThinkingBlock(<<"L">>)>>))
    \o DataLine(ContentRecord(<<ThinkingBlock(<<"s">>)>>))
    \o DataLine(ContentRecord(<<TextBlock(<<"4", "2">>)>>))
    \o DataLine(StopRecord)

\* an undecodable record between two content records, blank separator lines
WireBad ==
  DataLine(ContentRecord(<<TextBlock(<<"c">>)>>)) \o BlankLine
    \o BadLine \o BlankLine
    \o DataLine(ContentRecord(<<ThinkingBlock(<<"t">>), TextBlock(<<"d">>)>>))

\* a content record after the stop record
WireAfterStop ==
  DataLine(ContentRecord(<<TextBlock(<<"a">>)>>))
    \o DataLine(StopRecord)
    \o DataLine(ContentRecord(<<ThinkingBlock(<<"u">>), TextBlock(<<"x">>)>>))

\* a record of another type, a thinking block with an empty fragment
WireOther ==
  DataLine([type |-> "ping"])
    \o DataLine(ContentRecord(<<ThinkingBlock(<<>>), TextBlock(<<"e">>),
                                ThinkingBlock(<<"v">>), ThinkingBlock(<<"w">>)>>))

StreamWires == {WireExample, WireBad, WireAfterStop, WireOther}

FirstInput == <<"h", "i">>
EmptyAssistant == AssistantMessage(<<>>, <<>>)
FirstTranscript == <<UserMessage(FirstInput), EmptyAssistant>>
FirstChats ==
  updateCurrentChat(<<StoredChat(1, DefaultTitle)>>, 1, FirstTranscript)

InitStream ==
  /\ messages = FirstTranscript
  /\ input = <<>>
  /\ isLoading = TRUE
  /\ chats = FirstChats
  /\ currentChatId = 1
  /\ openThinking = NoOpenThinking
  /\ isThinkingComplete = FALSE
  /\ currentMessageRef = EmptyAssistant
  /\ apiToken = <<"k">>
  /\ storage = SaveChats(NoBlob, FirstChats)
  /\ nextId = 2
  /\ \E w \in StreamWires :
       submits = <<[NewSubmit(1, 0) EXCEPT !.pc = "read", !.status = 200,
                                           !.wire = w]>>
  /\ isAutoScrollEnabled = TRUE
  /\ scrollRef = PendingFrame
  /\ frames = 1
  /\ coalesced = TRUE
  /\ thinkingStartTime = 0
  /\ elapsedTime = 0
  /\ now = 0
  /\ mounted = TRUE
  /\ quotaExceeded = FALSE

NextStream ==
  \/ ReadChunk(1)
  \/ ReadDone(1)
  \/ ReadError(1)

SpecStream == InitStream /\ [][NextStream]_vars

\* ------------------------------------------------- stream events, by line
\* The events a complete line stands for (the conditions of processLine).
ThinkingDelta(f) == [event |-> "ContentDelta", channel |-> "Thinking", fragment |-> f]
TextDelta(f) == [event |-> "ContentDelta", channel |-> "Text", fragment |-> f]
StopEvent == [event |-> "Stop"]
MalformedEvent == [event |-> "Malformed"]

BlockEvents(block) ==
  IF IsThinkingBlock(block) THEN <<ThinkingDelta(block.thinking)>>
  ELSE IF Truthy(Field(block, "text")) THEN <<TextDelta(block.text)>>
  ELSE <<>>

RECURSIVE BlocksEvents(_)
BlocksEvents(blocks) ==
  IF blocks = <<>> THEN <<>>
  ELSE BlockEvents(Head(blocks)) \o BlocksEvents(Tail(blocks))

LineEvents(line) ==
  IF line = <<>> \/ ~StartsWithData(line) THEN <<>>
  ELSE LET parsed == JsonParse(SubSeq(line, 2, Len(line)))
       IN IF ~parsed.ok THEN <<MalformedEvent>>
          ELSE IF parsed.value.type = "content"
          THEN BlocksEvents(Field(parsed.value, "content"))
          ELSE IF parsed.value.type = "message_stop" THEN <<StopEvent>>
          ELSE <<>>

RECURSIVE LinesEvents(_)
LinesEvents(lines) ==
  IF lines = <<>> THEN <<>>
  ELSE LineEvents(Head(lines)) \o LinesEvents(Tail(lines))

\* the fragments of one channel, concatenated in order
RECURSIVE ChannelText(_, _)
ChannelText(events, channel) ==
  IF events = <<>> THEN <<>>
  ELSE (IF Head(events).event = "ContentDelta" /\ Head(events).channel = channel
        THEN Head(events).fragment ELSE <<>>)
       \o ChannelText(Tail(events), channel)

HasStop(events) == \E i \in DOMAIN events : events[i] = StopEvent

\* the pieces of a chunk without those that are "data: " lines failing to decode
IsBadPiece(line) == LineEvents(line) = <<MalformedEvent>>

RECURSIVE DropBadPieces(_)
DropBadPieces(lines) ==
  IF lines = <<>> THEN <<>>
  ELSE IF IsBadPiece(Head(lines)) THEN DropBadPieces(Tail(lines))
  ELSE <<Head(lines)>> \o DropBadPieces(Tail(lines))

\* what the read loop works on
LoopState ==
  [cur |-> currentMessageRef, messages |-> messages,
   openThinking |-> openThinking, isThinkingComplete |-> isThinkingComplete,
   thrown |-> FALSE]

LoopState_next ==
  [cur |-> currentMessageRef', messages |-> messages',
   openThinking |-> openThinking', isThinkingComplete |-> isThinkingComplete',
   thrown |-> FALSE]

\* the step is an iteration of call s's read loop, and the chunk it consumed
IsRead(s) ==
  /\ s \in DOMAIN submits /\ s \in DOMAIN submits'
  /\ submits[s].pc = "read" /\ submits'[s].pc = "read"
  /\ submits'[s].pos > submits[s].pos

ChunkRead(s) == SubSeq(submits[s].wire, submits[s].pos + 1, submits'[s].pos)

\* the step takes call s out of its read loop
LeavesLoop(s) ==
  /\ s \in DOMAIN submits /\ s \in DOMAIN submits'
  /\ submits[s].pc = "read" /\ submits'[s].pc = "done"

\* ------------------------------------------------------------------ claims

\* C1: chunking-invariance.  However the body is cut into reads, once the whole
\* body has been read the accumulated message and the completion flag are those
\* of the body's events taken line by line.
C1_ChunkingInvariance ==
  \A s \in DOMAIN submits :
    (submits[s].pc = "read" /\ submits[s].pos = Len(submits[s].wire)) =>
      LET events == LinesEvents(Split(submits[s].wire))
      IN /\ currentMessageRef.thinking = ChannelText(events, "Thinking")
         /\ currentMessageRef.content = ChannelText(events, "Text")
         /\ isThinkingComplete = HasStop(events)

\* C4: once a stop record has been processed (isThinkingComplete is set), no
\* later iteration of the same call's read loop changes the assistant message.
C4_NothingAfterStop ==
  [][\A s \in 1..MaxSubmits :
       (isThinkingComplete /\ IsRead(s)) =>
         (currentMessageRef' = currentMessageRef /\ messages' = messages)]_vars

\* C5: a "data: " line that fails to decode is a no-op and does not end the
\* stream: every iteration of the read loop leaves the state that the same
\* chunk without its undecodable lines leaves, later records included, and the
\* loop is left only by a step that processes no record.
C5_MalformedIsNoOp ==
  [][\A s \in 1..MaxSubmits :
       /\ IsRead(s) =>
            LoopState_next =
              ProcessLines(LoopState, DropBadPieces(Split(ChunkRead(s))), 1,
                           submits[s].closureLen)
       /\ LeavesLoop(s) => LoopState_next = LoopState]_vars

\* C5 witness: the body with the undecodable line was read line by line and
\* the records before and after it were applied
C5_Witness ==
  \E s \in DOMAIN submits :
    /\ submits[s].pc = "read"
    /\ submits[s].wire = WireBad
    /\ submits[s].pos = Len(WireBad)
    /\ currentMessageRef = AssistantMessage(<<"c", "d">>, <<"t">>)

\* C6: accumulation is append-only per channel and order-preserving: an
\* iteration of the read loop appends to thinking exactly the chunk's thinking
\* fragments in order and to content exactly its text fragments in order.
C6_AppendOnlyPerChannel ==
  [][\A s \in 1..MaxSubmits :
       IsRead(s) =>
         LET events == LinesEvents(Split(ChunkRead(s)))
         IN /\ currentMessageRef'.role = "assistant"
            /\ currentMessageRef'.thinking =
                 currentMessageRef.thinking \o ChannelText(events, "Thinking")
            /\ currentMessageRef'.content =
                 currentMessageRef.content \o ChannelText(events, "Text")]_vars

\* C6 witness: the records of the example stream were accumulated
C6_Witness ==
  \E s \in DOMAIN submits :
    /\ submits[s].pc = "read"
    /\ submits[s].wire = WireExample
    /\ currentMessageRef = AssistantMessage(<<"4", "2">>, <<"L", "s">>)

\* ------------------------------------------------------ what the user sees
\* The header of a thinking block: the spinner, the "Live" badge, the label.
ThinkingHeader(message, loading, complete) ==
  IF "thinking" \in DOMAIN message /\ Truthy(message.thinking)
  THEN [shown |-> TRUE,
        spinner |-> loading \/ ~complete,
        live |-> loading /\ ~complete,
        label |-> IF complete THEN "Thought for" ELSE "Thinking..."]
  ELSE [shown |-> FALSE]

\* MemoizedMessageContent
MessageView(message, loading, complete) ==
  IF message.role = "user"
  THEN [role |-> "You", content |-> message.content]
  ELSE [role |-> "Assistant",
        header |-> ThinkingHeader(message, loading, complete),
        thinking |-> Field(message, "thinking"),
        content |-> message.content,
        copyButton |-> ~loading]

\* the rendered transcript
View(msgs, loading, complete) ==
  [i \in DOMAIN msgs |-> MessageView(msgs[i], loading, complete)]

\* the messages stored for a chat (none when the chat is not in the store)
ChatMessages(chs, chatId) ==
  IF chatId \in ChatIds(chs)
  THEN (CHOOSE c \in {chs[i] : i \in DOMAIN chs} : c.id = chatId).messages
  ELSE <<>>

\* the step is the transport failure of call s: fetch rejects, read() rejects,
\* the reply has a non-success status, or the body ends without a stop record
FailsAt(s) ==
  /\ s \in DOMAIN submits /\ s \in DOMAIN submits'
  /\ Active(submits[s]) /\ submits'[s].pc = "done"
  /\ \/ submits[s].pc = "fetch"
     \/ submits[s].pos < Len(submits[s].wire)
     \/ submits[s].status # 200
     \/ ~HasStop(LinesEvents(Split(submits[s].wire)))

\* the step is an invocation of handleSubmit
IsSubmit == Len(submits') = Len(submits) + 1

\* C2: events of a stream whose session was deleted are discarded: an iteration
\* of the read loop of a call whose chat was deleted changes neither the
\* visible transcript nor the store.
C2_OrphanedStreamDiscarded ==
  [][\A s \in 1..MaxSubmits :
       (IsRead(s) /\ submits[s].left = "deleteChat") =>
         (messages' = messages /\ chats' = chats)]_vars

\* C3: after a cancel request (the user started a new chat while the call was
\* in flight) no event of the call is processed any more.
C3_CancelSuppressesEvents ==
  [][\A s \in 1..MaxSubmits :
       (IsRead(s) /\ submits[s].left = "createNewChat") =>
         /\ messages' = messages
         /\ chats' = chats
         /\ currentMessageRef' = currentMessageRef
         /\ isThinkingComplete' = isThinkingComplete
         /\ openThinking' = openThinking]_vars

\* C7: at most one stream is active per session: for every chat, at most one
\* call made in it is between submission and its finally block.
C7_OneStreamPerSession ==
  \A c \in 1..MaxChats :
    Cardinality({s \in DOMAIN submits :
                   Active(submits[s]) /\ submits[s].chat = c}) <= 1

\* C7 witness: a second call was made in a chat and is in flight, after the
\* first one, which got a response, has ended
C7_Witness ==
  /\ Len(submits) = 2
  /\ submits[1].pc = "done"
  /\ submits[2].pc = "read"
  /\ Len(ChatMessages(chats, submits[2].chat)) >= 4

\* C8 as stated: a submission with input and credential made while a stream is
\* active cancels the active stream and starts a fresh one.
C8_LastSubmissionWins ==
  [][(IsSubmit /\ isLoading /\ Truthy(Trim(input)) /\ Truthy(apiToken)) =>
       /\ submits'[Len(submits')].pc = "fetch"
       /\ \A s \in DOMAIN submits : ~Active(submits'[s])]_vars

\* C8 as amended: a submission made while a stream is active is rejected: it
\* changes no state and starts no request, and the active stream goes on.
C8_BusySubmitRejected ==
  [][(IsSubmit /\ isLoading) =>
       /\ submits' = Append(submits, RejectedSubmit)
       /\ UNCHANGED <<messages, input, isLoading, chats, currentChatId,
                      openThinking, isThinkingComplete, currentMessageRef,
                      apiToken, storage, nextId>>]_vars

\* C8 witness: a call was made with input and credential while the first call
\* was reading its response, and was rejected
C8_Witness ==
  /\ Len(submits) = 2
  /\ submits[1].pc = "read" /\ submits[1].pos > 0
  /\ submits[2] = RejectedSubmit
  /\ isLoading /\ Truthy(Trim(input)) /\ Truthy(apiToken)

LooksCompleted(msgs, loading, complete) ==
  /\ Len(msgs) > 0
  /\ msgs[Len(msgs)].role = "assistant"
  /\ View(msgs, loading, complete) = View(msgs, FALSE, TRUE)

\* C10: every transport failure ends in a state the user can tell from a
\* completed turn: after the failing step the transcript does not look like
\* that of a completed turn.
C10_FailureIsVisible ==
  [][\A s \in 1..MaxSubmits :
       FailsAt(s) => ~LooksCompleted(messages', isLoading', isThinkingComplete')]_vars

\* ------------------------------------------------ the turn's life cycle
\* C11: every accepted submission returns the controller to idle: with a
\* transport that always settles, a call in flight eventually reaches its
\* finally block with isLoading false, however the stream ends; and a
\* submission with input and credential made while isLoading is false is
\* accepted.
C11_ReturnsToIdle ==
  /\ \A s \in 1..MaxSubmits :
       (s \in DOMAIN submits /\ Active(submits[s]))
         ~> (s \in DOMAIN submits /\ submits[s].pc = "done" /\ ~isLoading)
  /\ [][(IsSubmit /\ ~isLoading /\ Truthy(Trim(input)) /\ Truthy(apiToken)) =>
          (submits'[Len(submits')].pc = "fetch" /\ isLoading')]_vars

\* C11 witness: the first call has ended and the next submission was accepted
C11_Witness ==
  /\ Len(submits) = 2
  /\ submits[1].pc = "done"
  /\ submits[2].pc = "fetch"
  /\ isLoading

\* a body of well-formed records that ends with the stop record
EndsWithStop(wire) ==
  LET events == LinesEvents(Split(wire))
  IN /\ events # <<>>
     /\ events[Len(events)] = StopEvent
     /\ \A i \in DOMAIN events : events[i] # MalformedEvent

\* C12: a stop record completes the turn: when the read loop of a call is
\* left after the whole of a well-formed body ending in the stop record was
\* read, isThinkingComplete is true and isLoading is false; and when a call's
\* loop is left with isThinkingComplete true, a stop record was among the
\* records the call had read.
C12_StopCompletes ==
  [][\A s \in 1..MaxSubmits :
       LeavesLoop(s) =>
         /\ (submits[s].pos = Len(submits[s].wire) /\ EndsWithStop(submits[s].wire))
              => (isThinkingComplete' /\ ~isLoading')
         /\ isThinkingComplete' =>
              HasStop(LinesEvents(Split(SubSeq(submits[s].wire, 1, submits[s].pos))))]_vars

\* the step is an accepted invocation of handleSubmit
IsAccepted == IsSubmit /\ submits'[Len(submits')].pc = "fetch"

\* the step is one of call s's own: fetch or read() settles
OutcomeStep(s) ==
  /\ s \in DOMAIN submits /\ s \in DOMAIN submits'
  /\ Active(submits[s])
  /\ (submits'[s].pc # submits[s].pc \/ IsRead(s))

\* every user message of a list is at its place, unchanged, in the later list
KeepsUserMessages(before, after) ==
  \A i \in DOMAIN before :
    before[i].role = "user" => (i \in DOMAIN after /\ after[i] = before[i])

\* C13: an accepted submission appends the user's message to the transcript
\* and to the stored session in the same step, and no step of a request (fetch
\* resolving or rejecting, a chunk, the end of the body, a read error) removes
\* or changes a user message of the transcript or of any stored session.
C13_UserMessageStays ==
  [][/\ IsAccepted =>
          /\ messages' = Append(messages, UserMessage(input))
          /\ ChatMessages(chats', currentChatId') = messages'
     /\ \A s \in 1..MaxSubmits :
          OutcomeStep(s) =>
            /\ KeepsUserMessages(messages, messages')
            /\ \A c \in 1..MaxChats :
                 KeepsUserMessages(ChatMessages(chats, c), ChatMessages(chats', c))]_vars

\* C13 witness: the request of the first call failed before any byte and the
\* user's message is in the transcript and in the stored session
C13_Witness ==
  /\ Len(submits) = 1
  /\ submits[1].pc = "done"
  /\ messages = <<UserMessage(FirstInput)>>
  /\ ChatMessages(chats, 1) = messages

\* the transcript ends with a user message followed by the empty placeholder
EndsWithPlaceholder(msgs) ==
  /\ Len(msgs) >= 2
  /\ msgs[Len(msgs) - 1].role = "user"
  /\ msgs[Len(msgs)] = EmptyAssistant

\* C14: the placeholder is appended on submission, right after the user's
\* message: after an accepted handleSubmit step the transcript ends with the
\* user's message and an empty assistant message, and it still does after the
\* step in which the request fails without having delivered a byte.
C14_PlaceholderOnSubmit ==
  [][/\ IsAccepted => EndsWithPlaceholder(messages')
     /\ \A s \in 1..MaxSubmits :
          (FailsAt(s) /\ submits[s].pc = "fetch" /\ submits[s].left = "no")
            => EndsWithPlaceholder(messages')]_vars

\* C15: a submit with empty or whitespace-only input, or with no credential,
\* is rejected with no state change: the transcript, the store, the current
\* chat, the input, the loading flag and localStorage are unchanged and no
\* request is started.
C15_RejectedSubmitNoChange ==
  [][(IsSubmit /\ (~Truthy(Trim(input)) \/ ~Truthy(apiToken))) =>
       /\ submits' = Append(submits, RejectedSubmit)
       /\ messages' = messages
       /\ chats' = chats
       /\ currentChatId' = currentChatId
       /\ input' = input
       /\ isLoading' = isLoading
       /\ storage' = storage
       /\ UNCHANGED <<openThinking, isThinkingComplete, currentMessageRef,
                      apiToken, nextId>>]_vars

\* C15 witness: with a credential and nothing in flight, a submit of a
\* whitespace-only input was rejected
C15_Witness ==
  /\ Len(submits) = 1
  /\ submits[1] = RejectedSubmit
  /\ ~isLoading
  /\ input = <<" ">>
  /\ Truthy(apiToken)

\* C16: slot reuse: after the placeholder was inserted, no iteration of the
\* call's read loop makes the message list longer; it leaves the messages
\* before the last one as they are and, where it changes the list, puts the
\* accumulated assistant message in the last place.
C16_SlotReuse ==
  [][\A s \in 1..MaxSubmits :
       IsRead(s) =>
         /\ Len(messages') = Len(messages)
         /\ \A i \in 1..(Len(messages) - 1) : messages'[i] = messages[i]
         /\ messages' # messages =>
              messages'[Len(messages')] = currentMessageRef']_vars

\* ------------------------------------------------------ the session store
\* the stored chat with the given id
ChatOf(chs, chatId) == CHOOSE c \in {chs[i] : i \in DOMAIN chs} : c.id = chatId

\* C17: deleting the current chat leaves no current chat and an empty
\* transcript; deleting another chat leaves the current chat id and the
\* transcript as they are; either way exactly that chat is gone from the store
\* and every other stored chat is unchanged.
C17_DeleteFrame ==
  [][\A id \in StoreIds :
       deleteChat(id) =>
         /\ currentChatId = id => (currentChatId' = Null /\ messages' = <<>>)
         /\ currentChatId # id =>
              (currentChatId' = currentChatId /\ messages' = messages)
         /\ ChatIds(chats') = ChatIds(chats) \ {id}
         /\ Len(chats') = Len(chats) - 1
         /\ \A c \in ChatIds(chats') : ChatOf(chats', c) = ChatOf(chats, c)]_vars

\* C17 witness: the current chat was deleted (no chat is current while chats
\* are stored): the answered chat is gone, the other two are stored as before
C17_Witness ==
  /\ currentChatId = Null
  /\ messages = <<>>
  /\ Len(chats) = 2
  /\ ChatIds(chats) = {1, UntouchedId}
  /\ storage.present /\ storage.chats = chats

\* C18: clearAllChats leaves no chat, no current chat, an empty transcript
\* and no record in localStorage; a reload of the page in that state finds no
\* stored chat and ends with exactly one chat in the store: new, empty,
\* current, and saved.
C18_ClearAllThenRestart ==
  [][/\ clearAllChats =>
          /\ chats' = <<>>
          /\ currentChatId' = Null
          /\ messages' = <<>>
          /\ storage' = NoBlob
     /\ (Restart /\ chats = <<>> /\ storage = NoBlob) =>
          /\ ParsedChats(storage) = <<>>
          /\ Len(chats') = 1
          /\ chats'[1] = StoredChat(currentChatId', DefaultTitle)
          /\ currentChatId' # Null
          /\ messages' = <<>>
          /\ storage' = [present |-> TRUE, chats |-> chats']]_vars

\* C18 witness: all chats of the record with two chats were cleared and the
\* page was loaded again: the only chat is the one made by that load
C18_Witness ==
  /\ chats = <<StoredChat(2, DefaultTitle)>>
  /\ currentChatId = 2
  /\ messages = <<>>
  /\ storage = [present |-> TRUE, chats |-> chats]
  /\ input = <<>> /\ apiToken = <<>>

\* C19: persist on change: once the effects of a step have run, a non-empty
\* store and the record in localStorage are the same list of chats, with the
\* same ids, titles and message lists, after streamed deltas as after any
\* handler.
C19_PersistOnChange ==
  Len(chats) > 0 => storage = [present |-> TRUE, chats |-> chats]

\* C19 witness: a streamed delta has grown the assistant message of the first
\* call and the record holds the grown message
C19_Witness ==
  /\ Len(submits) = 1
  /\ submits[1].pc = "read"
  /\ submits[1].pos > 0
  /\ storage.present
  /\ Len(storage.chats) = 1
  /\ storage.chats[1].messages =
       <<UserMessage(FirstInput), AssistantMessage(<<"c">>, <<>>)>>

\* C20: startup loads the history before it creates the new chat: after a
\* load of the page the store holds every chat of the record, unchanged and in
\* the record's order, followed by exactly one new empty chat, which is
\* current; the transcript is empty; and the record written by that load
\* still begins with every chat it held before.
C20_StartupKeepsHistory ==
  [][Restart =>
       LET history == ParsedChats(storage)
       IN /\ Len(chats') = Len(history) + 1
          /\ \A i \in DOMAIN history : chats'[i] = history[i]
          /\ chats'[Len(chats')] = StoredChat(currentChatId', DefaultTitle)
          /\ currentChatId' # Null
          /\ currentChatId' \notin ChatIds(history)
          /\ messages' = <<>>
          /\ storage'.present
          /\ Len(storage'.chats) >= Len(history)
          /\ \A i \in DOMAIN history : storage'.chats[i] = history[i]]_vars

\* C20 witness: the page was loaded over the record with the answered and the
\* unused chat and loaded again: both are in the store, in order and
\* unchanged, before the chats of the two loads, the last of which is current
C20_Witness ==
  /\ chats = <<AnsweredChat, UntouchedChat,
               StoredChat(1, DefaultTitle), StoredChat(2, DefaultTitle)>>
  /\ currentChatId = 2
  /\ messages = <<>>
  /\ storage = [present |-> TRUE, chats |-> chats]

\* C21: createNewChat adds exactly one chat, with an id no stored chat and no
\* call in flight has, the default title and no messages, at the end of the
\* store; makes it current; empties the transcript; and leaves every chat that
\* was stored as it was, in the same order.
C21_CreateFrame ==
  [][createNewChat =>
       /\ Len(chats') = Len(chats) + 1
       /\ \A i \in DOMAIN chats : chats'[i] = chats[i]
       /\ chats'[Len(chats')] = StoredChat(currentChatId', DefaultTitle)
       /\ currentChatId' # Null
       /\ currentChatId' \notin ChatIds(chats)
       /\ \A s \in DOMAIN submits :
            Active(submits[s]) => submits[s].chat # currentChatId'
       /\ messages' = <<>>]_vars

\* C21 witness: with the answered chat of an earlier page load in the store, a
\* second chat was created by this page load and is current
C21_Witness ==
  /\ chats = <<AnsweredChat, StoredChat(1, DefaultTitle), StoredChat(2, DefaultTitle)>>
  /\ currentChatId = 2
  /\ messages = <<>>
  /\ input = <<"h", "i">>
  /\ apiToken = <<"k">>

\* ------------------------------------------------------------ the titles
\* the first n characters of a text, the whole text when it is shorter
IsPrefixOfLength(title, text, n) ==
  /\ Len(title) = Min(Len(text), n)
  /\ \A i \in 1..Len(title) : title[i] = text[i]

\* C22: the title of a chat is derived from its first user message: a stored
\* chat whose first message is a user message (so also after its first
\* completed turn) has as title the first 20 characters of that message, the
\* whole message when it is shorter; and a title that is not the default one
\* is changed by no step, later turns included.
C22_DeriveTitle ==
  /\ [](\A i \in DOMAIN chats :
          (Len(chats[i].messages) > 0 /\ chats[i].messages[1].role = "user") =>
            IsPrefixOfLength(chats[i].title, chats[i].messages[1].content, TitleLen))
  /\ [][\A c \in ChatIds(chats) \cap ChatIds(chats') :
          ChatOf(chats, c).title # DefaultTitle =>
            ChatOf(chats', c).title = ChatOf(chats, c).title]_vars

\* C22 witness: the first turn of the first chat, with a message of 21
\* characters, was completed and a second turn was made in it: the title is
\* the first 20 characters of the first message
C22_Witness ==
  /\ Len(submits) = 2
  /\ submits[1].pc = "done" /\ submits[2].pc = "done"
  /\ Len(chats) = 1
  /\ Len(chats[1].messages) = 4
  /\ chats[1].messages[1] = UserMessage(LongInput)
  /\ chats[1].messages[2] = AssistantMessage(<<"4">>, <<"L">>)
  /\ chats[1].messages[3] = UserMessage(<<"h", "i">>)
  /\ chats[1].title = SubSeq(LongInput, 1, 20)

\* ------------------------------------------------ the scroll coordinator
\* a step that sets the transcript to a new value
MutatesMessages == messages' # messages

\* while auto-scroll is off, a step that changes the transcript requests no
\* frame (holds; the first half of C23)
C23_NoRequestWhileReading ==
  [][(~isAutoScrollEnabled /\ MutatesMessages) =>
       (scrollRef' = scrollRef \/ scrollRef' = CancelledFrame) /\ frames' <= frames]_vars

\* C23: streaming never fights the reader: while isAutoScrollEnabled is
\* false a change of the transcript requests no scroll to the end, and no
\* scroll to the end requested earlier runs after the user has scrolled away
\* from the bottom (every frame that runs, runs with isAutoScrollEnabled true).
C23_NeverFightsReader ==
  /\ C23_NoRequestWhileReading
  /\ [][AnimationFrame => isAutoScrollEnabled]_vars

\* C24: while isAutoScrollEnabled is true every growth of the transcript is
\* followed by one scroll to the end that runs after the last growth, the
\* last growth of a stream included: a step that changes the transcript
\* leaves exactly one frame requested, and a requested frame goes away only
\* by being run.
C24_GrowthIsFollowedByScroll ==
  /\ [][(isAutoScrollEnabled /\ MutatesMessages /\ Len(messages') > 0) =>
          (frames' = 1 /\ scrollRef' = PendingFrame)]_vars
  /\ [][(isAutoScrollEnabled /\ scrollRef = PendingFrame /\ scrollRef' # PendingFrame) =>
          AnimationFrame]_vars

\* C25: one slot for the scroll to the end: at most one requested frame is
\* pending, and it is the one scrollRef holds; a request made while one is
\* pending cancels the pending one.
C25_SinglePendingScroll ==
  /\ frames <= 1
  /\ frames = 1 <=> scrollRef = PendingFrame
  /\ coalesced => scrollRef = PendingFrame

\* C25 witness: a delta of the stream requested a frame while the frame
\* requested before was pending, and one frame is pending
C25_Witness ==
  /\ coalesced
  /\ frames = 1
  /\ \E s \in DOMAIN submits : submits[s].pc = "read" /\ submits[s].pos > 0
  /\ Len(messages) > 0
  /\ messages[Len(messages)].role = "assistant"
  /\ messages[Len(messages)].content # <<>>

\* ------------------------------------------------------ the elapsed time
\* formatElapsedTime
formatElapsedTime(seconds) ==
  IF seconds \div 60 = 0
  THEN <<seconds % 60, " seconds">>
  ELSE <<seconds \div 60, IF seconds \div 60 > 1 THEN " minutes " ELSE " minute ",
         seconds % 60, " seconds">>

\* the line under "Thinking Process" of an assistant message that has thinking
ElapsedLine(complete, elapsed) ==
  <<IF complete THEN "Thought for " ELSE "Thinking... ">> \o formatElapsedTime(elapsed)

\* the transcript shows the thinking of a turn, no call is running, and the
\* step keeps the turn's message
FinishedTurnStays ==
  /\ ~isLoading
  /\ \E i \in DOMAIN messages :
       /\ ThinkingHeader(messages[i], isLoading, isThinkingComplete).shown
       /\ i \in DOMAIN messages'
       /\ messages'[i] = messages[i]

\* outside a running call no step other than an accepted submission changes
\* the elapsed time: the interval is cleared (holds; the first half of C26)
C26_StopsAdvancing ==
  [][(~isLoading /\ ~IsAccepted) => elapsedTime' = elapsedTime]_vars

\* C26: after the turn has left streaming the elapsed time is latched: no
\* step, a later submission included, changes elapsedTime or the line shown
\* with it for the finished turn.
C26_ElapsedTimeLatched ==
  [][FinishedTurnStays =>
       /\ elapsedTime' = elapsedTime
       /\ ElapsedLine(isThinkingComplete', elapsedTime') =
            ElapsedLine(isThinkingComplete, elapsedTime)]_vars

\* ------------------------------------------------- localStorage that fails
\* C27: a failing write or read of localStorage does not block the work in
\* memory: when setItem throws, or the record cannot be decoded at startup,
\* the error is contained: the component stays mounted, with its chats and
\* its transcript, and its handlers keep working.
C27_StorageErrorContained == mounted

\* --------------------------------------------- a stream and the other chats
\* the chats stored before and after the step, other than chat c, are the same
OtherChatsUnchanged(c) ==
  \A d \in (ChatIds(chats) \cap ChatIds(chats')) \ {c} :
    ChatOf(chats', d) = ChatOf(chats, d)

\* every message of the transcript is at its place, unchanged, after the step
TranscriptKept ==
  \A i \in DOMAIN messages : i \in DOMAIN messages' /\ messages'[i] = messages[i]

\* C28: the writes of a stream stay in its own chat: after the user selected
\* another chat or created a new one while the call was in flight, an
\* iteration of the call's read loop changes the stored messages and the title
\* of no chat other than the one the submission was made in, and replaces no
\* message of the transcript of another chat.
C28_StreamWritesStayInSession ==
  [][\A s \in 1..MaxSubmits :
       (IsRead(s) /\ submits[s].left \in {"selectChat", "createNewChat"}) =>
         /\ OtherChatsUnchanged(submits[s].chat)
         /\ currentChatId # submits[s].chat => TranscriptKept]_vars

\* C29: a deleted chat does not come back with a reload: a chat that is not
\* among the chats in memory when the page is loaded again (deleteChat removed
\* it, also when it was the only one) is not among the chats loaded.
C29_DeletedStaysDeleted ==
  [][Restart =>
       \A id \in StoreIds \ {nextId} :
         id \notin ChatIds(chats) => id \notin ChatIds(chats')]_vars

\* the first user message of a list of messages is at index j
FirstUserAt(msgs, j) ==
  /\ j \in DOMAIN msgs
  /\ msgs[j].role = "user"
  /\ \A k \in 1..(j - 1) : msgs[k].role # "user"

\* C30: the title of every stored chat is the default one, "New Chat", or the
\* first 20 characters of the content of the first user message of that chat;
\* it is never derived from an assistant message or from a message of
\* another chat.
C30_TitleInvariant ==
  \A i \in DOMAIN chats :
    \/ chats[i].title = DefaultTitle
    \/ \E j \in DOMAIN chats[i].messages :
         /\ FirstUserAt(chats[i].messages, j)
         /\ IsPrefixOfLength(chats[i].title, chats[i].messages[j].content, TitleLen)

\* ------------------------------------------------------- the order of turns
\* `messages: [...messages, { content: input, role: "user" }].map(msg =>
\* ({ content: msg.content, role: msg.role }))` of the request body
RequestMessages(msgs, inp) ==
  [i \in 1..(Len(msgs) + 1) |->
     IF i <= Len(msgs)
     THEN [content |-> msgs[i].content, role |-> msgs[i].role]
     ELSE [content |-> inp, role |-> "user"]]

\* user, assistant, user, ... starting with a user message
Alternates(msgs) ==
  \A i \in DOMAIN msgs :
    msgs[i].role = IF i % 2 = 1 THEN "user" ELSE "assistant"

\* C31: turn alternation: the messages of every stored chat alternate user,
\* assistant, user, ... starting with a user message, and so do the messages
\* of the body of every request sent, also after a request that failed
\* before any response arrived.
C31_TurnAlternation ==
  /\ [](\A i \in DOMAIN chats : Alternates(chats[i].messages))
  /\ [][IsAccepted => Alternates(RequestMessages(messages, input))]_vars

\* ------------------------------------------------------ the current chat
\* C32: the current chat id is none or the id of exactly one stored chat,
\* whatever the order of create, select, delete, clear, submit (which creates
\* a chat when there is none) and reload.
C32_CurrentChatValid ==
  \/ currentChatId = Null
  \/ Cardinality({i \in DOMAIN chats : chats[i].id = currentChatId}) = 1

\* C32 witness: the current chat was deleted, a submission created a chat and
\* made it current, and two chats are stored
C32_Witness ==
  /\ Len(chats) = 2
  /\ currentChatId = chats[2].id
  /\ chats[2].title = generateChatTitle(<<"h", "i">>)
  /\ chats[2].messages = <<UserMessage(<<"h", "i">>)>>
  /\ chats[2].id \notin {AnsweredId, UntouchedId}
  /\ Len(submits) > 0

\* ------------------------------------------------ the open thinking block
\* a line of the chunk carries a thinking delta
HasThinkingDelta(chunk) ==
  \E i \in DOMAIN LinesEvents(Split(chunk)) :
    /\ LinesEvents(Split(chunk))[i].event = "ContentDelta"
    /\ LinesEvents(Split(chunk))[i].channel = "Thinking"

\* the index MessageContent gets for the last message of the transcript
\* (`index` counts from 0)
LastIndex(msgs) == Len(msgs) - 1

\* C33: when a thinking delta is received the thinking block of the assistant
\* message being streamed is opened: openThinking is the index of that
\* message, the last one of the transcript shown, whatever the length of the
\* transcript was at the submission.
C33_ThinkingAutoOpens ==
  [][\A s \in 1..MaxSubmits :
       (IsRead(s) /\ HasThinkingDelta(ChunkRead(s))) =>
         /\ messages'[Len(messages')].role = "assistant"
         /\ openThinking' = LastIndex(messages')]_vars

====
